---- MODULE Spec2Model ----
(***************************************************************************)
(* A model of the musk SDK's transaction builder (src/src/spend.rs) and of *)
(* the UTXO data it spends (src/src/client.rs).                            *)
(*                                                                         *)
(* Representation.  Option<T> is a sequence of length at most one: None is *)
(* <<>> and Some(x) is <<x>>.  Byte strings are sequences of integers.     *)
(* The sighash digest and the prover are external primitives: a digest is  *)
(* represented by the record of the arguments handed to the primitive (a   *)
(* collision-free hash), a satisfied program by the pair (cmr, witness).   *)
(***************************************************************************)
EXTENDS Integers, Sequences, FiniteSets, TLC

VARIABLES
    builder,    \* Option<SpendBuilder>: None before new and after a consuming call
    given,      \* the UTXO list handed to the last successful SpendBuilder::new
    ret,        \* Option<return record> of the call that has just returned
    pipeline,   \* the values of the program pipeline a caller holds, and its last call
    client      \* the RpcClient: its config, its genesis-hash cache, and its last call

vars == <<builder, given, ret, pipeline, client>>

----------------------------------------------------------------------------
(* Bounds of the model *)

MaxInputs == 2      \* longest UTXO list handed to SpendBuilder::new
MaxOutputs == 2     \* most outputs added to one builder
MaxSets == 3        \* longest witness-value / satisfied-program list handed to a finalize
MaxCalls == 5       \* most calls of genesis_hash made on one RpcClient

(* Program constants *)

TxVersion == 2
BlinderLen == 32
CommitmentLen == 33
CmrLen == 32
LeafVersion == 190
AssetIdLen == 32
ZeroHexLen == 64

----------------------------------------------------------------------------
(* Option and byte-string helpers *)

None == <<>>
Some(x) == <<x>>
IsSome(o) == Len(o) = 1
Unwrap(o) == o[1]

Bytes(n, b) == [i \in 1..n |-> b]
LastByte(n, b) == [i \in 1..n |-> IF i = n THEN b ELSE 0]
Commitment(prefix, x) == [i \in 1..CommitmentLen |-> IF i = 1 THEN prefix ELSE x]

----------------------------------------------------------------------------
(* elements::confidential::{Value, Asset, Nonce} as used by the builder *)

ValueExplicit(amount) == [kind |-> "Explicit", data |-> <<amount>>]
ValueConfidential(c) == [kind |-> "Confidential", data |-> c]
AssetExplicit(id) == [kind |-> "Explicit", data |-> <<id>>]
AssetConfidential(c) == [kind |-> "Confidential", data |-> c]
AssetNull == [kind |-> "Null", data |-> <<>>]
NonceNull == [kind |-> "Null", data |-> <<>>]
NonceConfidential(c) == [kind |-> "Confidential", data |-> c]

(* confidential::Value::from_commitment: Ok only for a Pedersen commitment *)
(* (prefix byte 0x08 or 0x09); the result is an Option here (Err = None).  *)
ValueFromCommitment(c) ==
    IF Len(c) = CommitmentLen /\ c[1] \in {8, 9}
    THEN Some(ValueConfidential(c)) ELSE None

(* confidential::Asset::from_commitment: Ok only for a generator           *)
(* (prefix byte 0x0a or 0x0b).                                             *)
AssetFromCommitment(c) ==
    IF Len(c) = CommitmentLen /\ c[1] \in {10, 11}
    THEN Some(AssetConfidential(c)) ELSE None

UnwrapOr(o, d) == IF IsSome(o) THEN Unwrap(o) ELSE d

----------------------------------------------------------------------------
(* Sequence::MAX, 0xFFFFFFFF, as its four bytes *)
SequenceMax == Bytes(4, 255)

(* client.rs: Utxo *)

Utxo(txid, vout, amount, asset, ab, asb, ac, asc) ==
    [txid |-> txid, vout |-> vout, amount |-> amount, script_pubkey |-> <<81>>,
     asset |-> asset, amount_blinder |-> ab, asset_blinder |-> asb,
     amount_commitment |-> ac, asset_commitment |-> asc]

AnyNonZero(bytes) == \E i \in 1..Len(bytes) : bytes[i] # 0

is_confidential_present(u) == IsSome(u.amount_blinder)

is_confidential(u) ==
    IF IsSome(u.amount_blinder)
    THEN IF AnyNonZero(Unwrap(u.amount_blinder)) THEN TRUE ELSE FALSE
    ELSE FALSE

(* ToHex::to_hex: two hex digits per byte, high digit first; a hex string  *)
(* is the sequence of its digits' values                                   *)
ToHex(bytes) ==
    [i \in 1..(2 * Len(bytes)) |->
        IF i % 2 = 1 THEN bytes[(i + 1) \div 2] \div 16 ELSE bytes[i \div 2] % 16]

(* "0".repeat(64) *)
ZeroHex == [i \in 1..ZeroHexLen |-> 0]

amount_blinder_hex(u) ==
    IF IsSome(u.amount_blinder) THEN ToHex(Unwrap(u.amount_blinder)) ELSE ZeroHex

asset_blinder_hex(u) ==
    IF IsSome(u.asset_blinder) THEN ToHex(Unwrap(u.asset_blinder)) ELSE ZeroHex

(* The asset id written id in the model is the 32 bytes [id; 32] *)
AssetIdBytes(id) == Bytes(AssetIdLen, id)

(* The UTXOs handed to SpendBuilder::new in Spec: an explicit one, an      *)
(* explicit one that carries all-zero blinders and commitments, and a      *)
(* confidential one with well-formed commitments.                          *)
UtxoExplicit ==
    Utxo(1, 0, 5, AssetExplicit(1), None, None, None, None)
UtxoZeroBlinder ==
    Utxo(2, 1, 6, AssetExplicit(1), Some(Bytes(BlinderLen, 0)), Some(Bytes(BlinderLen, 0)),
         Some(Commitment(8, 2)), Some(Commitment(10, 2)))
UtxoConfidential ==
    Utxo(3, 0, 7, AssetExplicit(1), Some(LastByte(BlinderLen, 1)), Some(Bytes(BlinderLen, 2)),
         Some(Commitment(9, 3)), Some(Commitment(11, 3)))
UtxoPool == {UtxoExplicit, UtxoZeroBlinder, UtxoConfidential}

(* Every combination of the fields that decide how a UTXO is treated, for  *)
(* SpecUtxo: blinders absent, all-zero, zero but for the last byte, or     *)
(* non-zero throughout; commitments absent, well-formed, or bytes that are *)
(* no commitment (the [3u8; 33] and [4u8; 33] of client.rs's tests)        *)
AmountBlinders ==
    {None, Some(Bytes(BlinderLen, 0)), Some(LastByte(BlinderLen, 1)), Some(Bytes(BlinderLen, 1))}
AssetBlinders == {None, Some(Bytes(BlinderLen, 0)), Some(Bytes(BlinderLen, 2))}
AmountCommitments == {None, Some(Commitment(8, 3)), Some(Commitment(3, 3))}
AssetCommitments == {None, Some(Commitment(10, 4)), Some(Commitment(4, 4))}

UtxoSpace ==
    {Utxo(4, 0, 8, asset, ab, asb, ac, asc) :
        asset \in {AssetExplicit(1), AssetNull}, ab \in AmountBlinders, asb \in AssetBlinders,
        ac \in AmountCommitments, asc \in AssetCommitments}

(* The UTXO lists of SpecUtxo: one UTXO of UtxoSpace, alone or next to     *)
(* the explicit UTXO                                                       *)
UtxoSpaceLists ==
    UNION {{<<u>>, <<u, UtxoExplicit>>, <<UtxoExplicit, u>>} : u \in UtxoSpace}

(* The UTXO lists of at most n entries that spend no outpoint twice *)
UtxoLists(S, n) ==
    UNION {{l \in [1..k -> S] : \A i, j \in 1..k : l[i] = l[j] => i = j} : k \in 0..n}

----------------------------------------------------------------------------
(* address.rs, program.rs: programs, taproot info, satisfaction *)

(* The leading bytes of the NUMS internal key of util.rs *)
InternalKey == <<80, 146, 155, 116>>

create_taproot_info_tapscript(cmr) ==
    [internal_key |-> InternalKey,
     merkle_root |-> <<196>> \o cmr,
     leaves |-> {<<cmr, 196>>}]

create_taproot_info(cmr) ==
    [internal_key |-> InternalKey,
     merkle_root |-> <<LeafVersion>> \o cmr,
     leaves |-> {<<cmr, LeafVersion>>}]

(* Program::instantiate for the source whose commitment root is c repeated *)
Instantiate(c) ==
    LET cmr == Bytes(CmrLen, c)
    IN  [cmr |-> cmr, taproot_info |-> create_taproot_info(cmr)]

script_version(p) == <<p.cmr, LeafVersion>>

control_block_any_leaf(info, script, version) ==
    Some([leaf_version |-> version, internal_key |-> info.internal_key, merkle_branch |-> <<>>])

(* TaprootSpendInfo::control_block: None for a leaf that is not in the tree *)
control_block(info, script, version) ==
    IF <<script, version>> \in info.leaves
    THEN Some([leaf_version |-> version, internal_key |-> info.internal_key,
               merkle_branch |-> <<>>])
    ELSE None

ControlBlockSerialize(cb) == <<cb.leaf_version>> \o cb.internal_key \o cb.merkle_branch

(* The prover: witness value 0 does not satisfy a program, any other does *)
Satisfies(p, wv) == wv # 0

satisfy_unchecked(p, wv) ==
    Some([inner |-> [cmr |-> p.cmr, witness |-> wv], taproot_info |-> p.taproot_info])

(* InstantiatedProgram::satisfy: Option<SatisfiedProgram>, None = SatisfactionError *)
satisfy(p, wv) ==
    IF Satisfies(p, wv)
    THEN Some([inner |-> [cmr |-> p.cmr, witness |-> wv], taproot_info |-> p.taproot_info])
    ELSE None

(* SatisfiedProgram::encode: (program bytes, witness bytes) *)
encode(s) == << <<0>> \o s.inner.cmr, <<s.inner.witness>> >>

BuilderProgram == Instantiate(1)
OtherProgram == Instantiate(2)

----------------------------------------------------------------------------
(* spend.rs: transactions *)

TxOutWitnessEmpty == [surjection_proof |-> None, rangeproof |-> None]

TxOut(value, script, asset, nonce, witness) ==
    [value |-> value, script_pubkey |-> script, asset |-> asset, nonce |-> nonce,
     witness |-> witness]

TxOutNewFee(amount, asset) ==
    TxOut(ValueExplicit(amount), <<>>, AssetExplicit(asset), NonceNull, TxOutWitnessEmpty)

TxInWitnessEmpty ==
    [amount_rangeproof |-> None, inflation_keys_rangeproof |-> None,
     script_witness |-> <<>>, pegin_witness |-> <<>>]

TxIn(utxo, sequence, witness) ==
    [previous_output |-> <<utxo.txid, utxo.vout>>, is_pegin |-> FALSE, script_sig |-> <<>>,
     sequence |-> sequence, asset_issuance |-> None, witness |-> witness]

build_unsigned_tx_inputs_reversed(b) ==
    [version |-> TxVersion,
     lock_time |-> b.lock_time,
     input |-> [k \in 1..Len(b.utxos) |->
                   TxIn(b.utxos[Len(b.utxos) + 1 - k], b.sequence, TxInWitnessEmpty)],
     output |-> b.outputs]

build_unsigned_tx(b) ==
    [version |-> TxVersion,
     lock_time |-> b.lock_time,
     input |-> [k \in 1..Len(b.utxos) |-> TxIn(b.utxos[k], b.sequence, TxInWitnessEmpty)],
     output |-> b.outputs]

----------------------------------------------------------------------------
(* spend.rs: blinding parameters *)

asset_hex_or_empty(asset) ==
    IF asset.kind = "Explicit" THEN ToHex(AssetIdBytes(asset.data[1])) ELSE <<>>

(* the match on utxo.asset in get_blinding_params *)
asset_hex(asset) ==
    IF asset.kind = "Explicit" THEN ToHex(AssetIdBytes(asset.data[1])) ELSE ZeroHex

BlindingParams(amount_blinders, amounts, assets, asset_blinders) ==
    [input_amount_blinders |-> amount_blinders, input_amounts |-> amounts,
     input_assets |-> assets, input_asset_blinders |-> asset_blinders]

get_blinding_params_blinders_swapped(b) ==
    BlindingParams([k \in 1..Len(b.utxos) |-> asset_blinder_hex(b.utxos[k])],
                   [k \in 1..Len(b.utxos) |-> b.utxos[k].amount],
                   [k \in 1..Len(b.utxos) |-> asset_hex(b.utxos[k].asset)],
                   [k \in 1..Len(b.utxos) |-> amount_blinder_hex(b.utxos[k])])

get_blinding_params(b) ==
    BlindingParams([k \in 1..Len(b.utxos) |-> amount_blinder_hex(b.utxos[k])],
                   [k \in 1..Len(b.utxos) |-> b.utxos[k].amount],
                   [k \in 1..Len(b.utxos) |-> asset_hex(b.utxos[k].asset)],
                   [k \in 1..Len(b.utxos) |-> asset_blinder_hex(b.utxos[k])])

----------------------------------------------------------------------------
(* spend.rs: the value/asset pair of one input, as handed to the digest *)

SighashValue(u) ==
    IF is_confidential(u)
    THEN IF IsSome(u.amount_commitment)
         THEN UnwrapOr(ValueFromCommitment(Unwrap(u.amount_commitment)),
                       ValueExplicit(u.amount))
         ELSE ValueExplicit(u.amount)
    ELSE ValueExplicit(u.amount)

SighashAsset(u) ==
    IF is_confidential(u)
    THEN IF IsSome(u.asset_commitment)
         THEN UnwrapOr(AssetFromCommitment(Unwrap(u.asset_commitment)), u.asset)
         ELSE u.asset
    ELSE u.asset

ElementsUtxo_always_commitment(u) ==
    [script_pubkey |-> u.script_pubkey,
     value |-> IF IsSome(u.amount_commitment)
               THEN UnwrapOr(ValueFromCommitment(Unwrap(u.amount_commitment)),
                             ValueExplicit(u.amount))
               ELSE ValueExplicit(u.amount),
     asset |-> IF IsSome(u.asset_commitment)
               THEN UnwrapOr(AssetFromCommitment(Unwrap(u.asset_commitment)), u.asset)
               ELSE u.asset]

ElementsUtxo_always_explicit(u) ==
    [script_pubkey |-> u.script_pubkey, value |-> ValueExplicit(u.amount), asset |-> u.asset]

ElementsUtxoOf(u) ==
    [script_pubkey |-> u.script_pubkey, value |-> SighashValue(u), asset |-> SighashAsset(u)]

BlindedSighashValue(u) ==
    IF is_confidential(u)
    THEN IF IsSome(u.amount_commitment)
         THEN UnwrapOr(ValueFromCommitment(Unwrap(u.amount_commitment)),
                       ValueExplicit(u.amount))
         ELSE ValueExplicit(u.amount)
    ELSE ValueExplicit(u.amount)

BlindedSighashAsset(u) ==
    IF is_confidential(u)
    THEN IF IsSome(u.asset_commitment)
         THEN UnwrapOr(AssetFromCommitment(Unwrap(u.asset_commitment)), u.asset)
         ELSE u.asset
    ELSE u.asset

BlindedElementsUtxoOf(u) ==
    [script_pubkey |-> u.script_pubkey, value |-> BlindedSighashValue(u),
     asset |-> BlindedSighashAsset(u)]

----------------------------------------------------------------------------
(* Results of the builder's operations.  status is "ok", "err" or "panic"; *)
(* satisfy_calls and digest_calls count the calls made to the prover and   *)
(* to the digest primitive before the operation returned.                  *)

Result(status, err, tx, digest, nsat, ndig) ==
    [status |-> status, err |-> err, tx |-> tx, digest |-> digest, value |-> None,
     satisfy_calls |-> nsat, digest_calls |-> ndig]

BuildError == Result("err", "BuildError", None, None, 0, 0)
OkDigest(d) == Result("ok", "", None, Some(d), 0, 1)
OkTx(tx, nsat) == Result("ok", "", Some(tx), None, nsat, 0)
OkValue(v) == [Result("ok", "", None, None, 0, 0) EXCEPT !.value = Some(v)]

(* ElementsEnv::new(..).c_tx_env().sighash_all() *)
Digest(tx, utxos, index, cmr, cb, genesis) ==
    [tx |-> tx, utxos |-> utxos, index |-> index, cmr |-> cmr,
     control_block |-> cb, annex |-> None, genesis_hash |-> genesis]

sighash_all_for_input_off_by_one(b, input_index) ==
    IF input_index > Len(b.utxos) THEN BuildError
    ELSE LET cb == control_block(b.program.taproot_info, script_version(b.program)[1],
                                 script_version(b.program)[2])
         IN  IF cb = None THEN BuildError
             ELSE OkDigest(Digest(build_unsigned_tx(b),
                                  [k \in 1..Len(b.utxos) |-> ElementsUtxoOf(b.utxos[k])],
                                  input_index, b.program.cmr, Unwrap(cb), b.genesis_hash))

sighash_all_for_input(b, input_index) ==
    IF input_index >= Len(b.utxos) THEN BuildError
    ELSE LET tx == build_unsigned_tx(b)
             elements_utxos == [k \in 1..Len(b.utxos) |-> ElementsUtxoOf(b.utxos[k])]
             sv == script_version(b.program)
             cb == control_block(b.program.taproot_info, sv[1], script_version(b.program)[2])
         IN  IF cb = None THEN BuildError
             ELSE OkDigest(Digest(tx, elements_utxos, input_index, b.program.cmr,
                                  Unwrap(cb), b.genesis_hash))

sighash_all(b) == sighash_all_for_input(b, 0)

sighash_all_for_blinded_input(b, blinded_tx, input_index) ==
    IF input_index >= Len(b.utxos) THEN BuildError
    ELSE LET elements_utxos == [k \in 1..Len(b.utxos) |-> BlindedElementsUtxoOf(b.utxos[k])]
             sv == script_version(b.program)
             cb == control_block(b.program.taproot_info, sv[1], script_version(b.program)[2])
         IN  IF cb = None THEN BuildError
             ELSE OkDigest(Digest(blinded_tx, elements_utxos, input_index, b.program.cmr,
                                  Unwrap(cb), b.genesis_hash))

sighash_all_for_blinded(b, blinded_tx) == sighash_all_for_blinded_input(b, blinded_tx, 0)

----------------------------------------------------------------------------
(* spend.rs: finalize *)

ContractError(nsat) == Result("err", "ContractError", None, None, nsat, 0)

Min(S) == CHOOSE x \in S : \A y \in S : x <= y

WitnessStack_swapped(script, s, cb) ==
    <<encode(s)[1], encode(s)[2], script, ControlBlockSerialize(cb)>>

(* script_witness: [witness bytes, program bytes, script bytes, control block] *)
WitnessStack(script, s, cb) ==
    <<encode(s)[2], encode(s)[1], script, ControlBlockSerialize(cb)>>

InputWitness(stack) ==
    [amount_rangeproof |-> None, inflation_keys_rangeproof |-> None,
     script_witness |-> stack, pegin_witness |-> <<>>]

ControlBlocks_own(b, sats) ==
    [k \in 1..Len(sats) |->
        control_block(b.program.taproot_info, script_version(b.program)[1],
                      script_version(b.program)[2])]

ControlBlocks(b, sats) ==
    [k \in 1..Len(sats) |->
        control_block(sats[k].taproot_info, script_version(b.program)[1],
                      script_version(b.program)[2])]

CountMismatch_fewer_only(n, b) == n < Len(b.utxos)

(* the length check that opens finalize_multi, finalize_with_satisfied_refs *)
(* and finalize_blinded_refs                                               *)
CountMismatch(n, b) == n # Len(b.utxos)

finalize_with_satisfied_refs_default_sequence(b, sats) ==
    IF Len(sats) # Len(b.utxos) THEN BuildError
    ELSE LET script == script_version(b.program)[1]
             cbs == [k \in 1..Len(sats) |->
                       control_block(sats[k].taproot_info, script, script_version(b.program)[2])]
         IN  IF \E k \in 1..Len(sats) : cbs[k] = None THEN BuildError
             ELSE OkTx([version |-> TxVersion,
                        lock_time |-> b.lock_time,
                        input |-> [k \in 1..Len(b.utxos) |->
                            TxIn(b.utxos[k], SequenceMax,
                                 InputWitness(<<encode(sats[k])[2], encode(sats[k])[1], script,
                                                ControlBlockSerialize(Unwrap(cbs[k]))>>))],
                        output |-> b.outputs], 0)

finalize_with_satisfied_refs(b, sats) ==
    IF CountMismatch(Len(sats), b) THEN BuildError
    ELSE LET script == script_version(b.program)[1]
             cbs == ControlBlocks(b, sats)
         IN  IF \E k \in 1..Len(sats) : cbs[k] = None THEN BuildError
             ELSE OkTx([version |-> TxVersion,
                        lock_time |-> b.lock_time,
                        input |-> [k \in 1..Len(b.utxos) |->
                            TxIn(b.utxos[k], b.sequence,
                                 InputWitness(WitnessStack(script, sats[k], Unwrap(cbs[k]))))],
                        output |-> b.outputs], 0)

finalize_with_satisfied(b, s) == finalize_with_satisfied_refs(b, <<s>>)

finalize_multi_first_witness(b, wvs) ==
    IF CountMismatch(Len(wvs), b) THEN BuildError
    ELSE LET sat == [k \in 1..Len(wvs) |-> satisfy(b.program, wvs[1])]
             failed == {k \in 1..Len(wvs) : sat[k] = None}
         IN  IF failed # {} THEN ContractError(Min(failed))
             ELSE [finalize_with_satisfied_refs(b, [k \in 1..Len(wvs) |-> Unwrap(sat[k])])
                     EXCEPT !.satisfy_calls = Len(wvs)]

finalize_multi(b, wvs) ==
    IF CountMismatch(Len(wvs), b) THEN BuildError
    ELSE LET sat == [k \in 1..Len(wvs) |-> satisfy(b.program, wvs[k])]
             failed == {k \in 1..Len(wvs) : sat[k] = None}
         IN  IF failed # {} THEN ContractError(Min(failed))
             ELSE [finalize_with_satisfied_refs(b, [k \in 1..Len(wvs) |-> Unwrap(sat[k])])
                     EXCEPT !.satisfy_calls = Len(wvs)]

finalize_first_input(b, wv) == finalize_multi([b EXCEPT !.utxos = <<b.utxos[1]>>], <<wv>>)

finalize(b, wv) == finalize_multi(b, <<wv>>)

finalize_blinded_refs_rebuilt(b, blinded_tx, sats) == finalize_with_satisfied_refs(b, sats)

finalize_blinded_refs(b, blinded_tx, sats) ==
    IF CountMismatch(Len(sats), b) THEN BuildError
    ELSE LET script == script_version(b.program)[1]
             cbs == ControlBlocks(b, sats)
         IN  IF \E k \in 1..Len(sats) : cbs[k] = None THEN BuildError
             ELSE OkTx([blinded_tx EXCEPT !.input =
                          [i \in 1..Len(blinded_tx.input) |->
                              IF i <= Len(sats)
                              THEN [blinded_tx.input[i] EXCEPT !.witness =
                                      InputWitness(WitnessStack(script, sats[i], Unwrap(cbs[i])))]
                              ELSE blinded_tx.input[i]]], 0)

finalize_blinded(b, blinded_tx, s) == finalize_blinded_refs(b, blinded_tx, <<s>>)

Consumes_sighash(op) ==
    op \in {"finalize", "finalize_multi", "finalize_with_satisfied",
            "finalize_with_satisfied_refs", "sighash_all", "sighash_all_for_input",
            "sighash_all_for_blinded_input"}

Consumes_all(op) ==
    op \in {"finalize", "finalize_multi", "finalize_with_satisfied",
            "finalize_with_satisfied_refs", "finalize_blinded", "finalize_blinded_refs"}

(* The operations that take the builder by value (self); all others borrow it *)
Consumes(op) ==
    op \in {"finalize", "finalize_multi", "finalize_with_satisfied",
            "finalize_with_satisfied_refs"}

----------------------------------------------------------------------------
(* Inputs of the operations *)

LockTimes == {0, 7}
Sequences == {SequenceMax, LastByte(4, 1)}
GenesisHashes == {Bytes(4, 0), Bytes(4, 9)}

(* Witness values for the k-th input: k satisfies the program, 0 does not *)
(* The lists handed to finalize_multi hold at most one unsatisfying entry  *)
WitnessValuesFor(k) == {k, 0}
WitnessSets ==
    UNION {{w \in [1..n -> 0..MaxSets] :
                /\ \A k \in 1..n : w[k] \in WitnessValuesFor(k)
                /\ Cardinality({k \in 1..n : w[k] = 0}) <= 1} : n \in 0..MaxSets}

(* Satisfied programs for the k-th input: the builder's program satisfied  *)
(* with witness k, or another program satisfied; a list holds at most one  *)
(* satisfied program of the other program                                  *)
SatisfiedFor(k) == {Unwrap(satisfy(BuilderProgram, k)), Unwrap(satisfy(OtherProgram, k))}
SatisfiedPool == UNION {SatisfiedFor(k) : k \in 1..MaxSets}
SatisfiedSets ==
    UNION {{s \in [1..n -> SatisfiedPool] :
                /\ \A k \in 1..n : s[k] \in SatisfiedFor(k)
                /\ Cardinality({k \in 1..n : s[k].inner.cmr # BuilderProgram.cmr}) <= 1}
             : n \in 0..MaxSets}

(* What the external blinding step makes of an output with a nonce *)
BlindOutput(o) ==
    IF o.nonce = NonceNull THEN o
    ELSE TxOut(ValueConfidential(Commitment(8, 9)), o.script_pubkey,
               AssetConfidential(Commitment(10, 9)), o.nonce,
               [surjection_proof |-> Some(<<1>>), rangeproof |-> Some(<<2>>)])

Blind(tx) == [tx EXCEPT !.output = [k \in 1..Len(tx.output) |-> BlindOutput(tx.output[k])]]

ForeignInput(sequence) ==
    [previous_output |-> <<9, 0>>, is_pegin |-> FALSE, script_sig |-> <<>>,
     sequence |-> sequence, asset_issuance |-> None, witness |-> TxInWitnessEmpty]

(* The transactions a caller hands to the blinded operations: the unsigned *)
(* transaction, its blinded form, and blinded forms with one input fewer   *)
(* or one input more than the builder has UTXOs                            *)
BlindedTxs(b) ==
    LET u == build_unsigned_tx(b)
        t == Blind(u)
    IN  {u, t,
         [t EXCEPT !.input = SubSeq(t.input, 1, Len(t.input) - 1)],
         [t EXCEPT !.input = Append(t.input, ForeignInput(b.sequence))]}

----------------------------------------------------------------------------
(* The state machine: one builder, one call at a time *)

NoArgs == [index |-> 0, tx |-> None, wvs |-> <<>>, sats |-> <<>>, utxo |-> None, spend |-> None]

Returned(op, pre, args, res) ==
    Some([op |-> op, pre |-> pre, args |-> args, res |-> res])

Idle == ret = None
Building == builder # None /\ ret = None
B == Unwrap(builder)

(* No Program parsed yet, nothing derived from one *)
PipelineInit ==
    [program |-> None, instantiated |-> None, instantiated_from |-> None,
     satisfied |-> None, satisfied_from |-> None, encoded |-> None, encoded_from |-> None,
     last |-> None]

Init ==
    /\ builder = None
    /\ given = <<>>
    /\ ret = None
    /\ pipeline = PipelineInit
    /\ client = None

NewAccepts_any(utxos) == TRUE

(* assert!(!utxos.is_empty()) *)
NewAccepts(utxos) == utxos # <<>>

NewBuilder(program, utxos) ==
    [program |-> program, utxos |-> utxos, outputs |-> <<>>, lock_time |-> 0,
     sequence |-> SequenceMax, genesis_hash |-> Bytes(4, 0)]

New ==
    /\ Idle /\ builder = None
    /\ \E utxos \in UtxoLists(UtxoPool, MaxInputs) :
         IF NewAccepts(utxos)
         THEN /\ builder' = Some(NewBuilder(BuilderProgram, utxos))
              /\ given' = utxos
              /\ ret' = None
         ELSE /\ ret' = Returned("new", None, NoArgs, Result("panic", "", None, None, 0, 0))
              /\ UNCHANGED <<builder, given>>
    /\ UNCHANGED <<pipeline, client>>

SetGenesisHash ==
    /\ Building
    /\ \E h \in GenesisHashes : builder' = Some([B EXCEPT !.genesis_hash = h])
    /\ UNCHANGED <<given, ret, pipeline, client>>

SetLockTime ==
    /\ Building
    /\ \E t \in LockTimes : builder' = Some([B EXCEPT !.lock_time = t])
    /\ UNCHANGED <<given, ret, pipeline, client>>

SetSequence ==
    /\ Building
    /\ \E q \in Sequences : builder' = Some([B EXCEPT !.sequence = q])
    /\ UNCHANGED <<given, ret, pipeline, client>>

Push(outputs) ==
    /\ Building
    /\ Len(B.outputs) < MaxOutputs
    /\ builder' = Some([B EXCEPT !.outputs = outputs])
    /\ UNCHANGED <<given, ret, pipeline, client>>

add_output(outputs, output) == Append(outputs, output)

add_output_simple(outputs, script_pubkey, amount, asset) ==
    Append(outputs, TxOut(ValueExplicit(amount), script_pubkey, AssetExplicit(asset),
                          NonceNull, TxOutWitnessEmpty))

add_fee_first(outputs, amount, asset) == <<TxOutNewFee(amount, asset)>> \o outputs

add_fee(outputs, amount, asset) == Append(outputs, TxOutNewFee(amount, asset))

add_confidential_output(outputs, script_pubkey, amount, asset, nonce) ==
    Append(outputs, TxOut(ValueExplicit(amount), script_pubkey, AssetExplicit(asset),
                          nonce, TxOutWitnessEmpty))

(* The outputs callers hand to add_output: any TxOut, here an explicit one *)
(* without nonce, a fee and an explicit one with a blinding nonce          *)
AnyTxOuts ==
    {TxOut(ValueExplicit(3), <<82>>, AssetExplicit(1), NonceNull, TxOutWitnessEmpty),
     TxOutNewFee(1, 1),
     TxOut(ValueExplicit(2), <<83>>, AssetExplicit(1), NonceConfidential(Commitment(2, 6)),
           TxOutWitnessEmpty)}

AddOutput ==
    /\ Building
    /\ \E o \in AnyTxOuts : Push(add_output(B.outputs, o))

AddOutputSimple ==
    /\ Building
    /\ Push(add_output_simple(B.outputs, <<82>>, 3, 1))

AddFee ==
    /\ Building
    /\ Push(add_fee(B.outputs, 1, 1))

AddConfidentialOutput ==
    /\ Building
    /\ Push(add_confidential_output(B.outputs, <<83>>, 2, 1, NonceConfidential(Commitment(2, 6))))

Call(op, args, res) ==
    /\ Building
    /\ ret' = Returned(op, builder, args, res)
    /\ builder' = IF Consumes(op) THEN None ELSE builder
    /\ UNCHANGED <<given, pipeline, client>>

num_inputs(b) == Len(b.utxos)

NumInputs ==
    /\ Building
    /\ Call("num_inputs", NoArgs, OkValue(num_inputs(B)))

(* Utxo::is_confidential on one of the builder's UTXOs *)
UtxoIsConfidential ==
    /\ Building
    /\ \E k \in 1..Len(B.utxos) :
           Call("is_confidential", [NoArgs EXCEPT !.utxo = Some(B.utxos[k])],
                OkValue(is_confidential(B.utxos[k])))

needs_blinding_last(b) ==
    b.outputs # <<>> /\ b.outputs[Len(b.outputs)].nonce.kind # "Null"

(* self.outputs.iter().any(|o| !o.nonce.is_null()) *)
needs_blinding(b) == \E k \in 1..Len(b.outputs) : b.outputs[k].nonce.kind # "Null"

NeedsBlinding ==
    /\ Building
    /\ Call("needs_blinding", NoArgs, OkValue(needs_blinding(B)))

GetBlindingParams ==
    /\ Building
    /\ Call("get_blinding_params", NoArgs, OkValue(get_blinding_params(B)))

BuildUnsigned ==
    /\ Building
    /\ Call("build_unsigned", NoArgs, OkTx(build_unsigned_tx(B), 0))

(* add_fee called while the caller still holds the transaction that        *)
(* build_unsigned has just returned                                        *)
AddFeeHoldingUnsigned ==
    /\ ret # None /\ Unwrap(ret).op = "build_unsigned"
    /\ builder # None
    /\ Len(B.outputs) < MaxOutputs
    /\ builder' = Some([B EXCEPT !.outputs = add_fee(B.outputs, 1, 1)])
    /\ UNCHANGED <<given, ret, pipeline, client>>

SighashAll ==
    /\ Building
    /\ Call("sighash_all", NoArgs, sighash_all(B))

SighashAllForInput ==
    /\ Building
    /\ \E i \in 0..MaxInputs :
           Call("sighash_all_for_input", [NoArgs EXCEPT !.index = i], sighash_all_for_input(B, i))

SighashAllForBlinded ==
    /\ Building
    /\ \E t \in BlindedTxs(B) :
           Call("sighash_all_for_blinded", [NoArgs EXCEPT !.tx = Some(t)],
                sighash_all_for_blinded(B, t))

SighashAllForBlindedInput ==
    /\ Building
    /\ \E t \in BlindedTxs(B), i \in 0..MaxInputs :
           Call("sighash_all_for_blinded_input", [NoArgs EXCEPT !.tx = Some(t), !.index = i],
                sighash_all_for_blinded_input(B, t, i))

Finalize ==
    /\ Building
    /\ \E w \in WitnessValuesFor(1) :
           Call("finalize", [NoArgs EXCEPT !.wvs = <<w>>], finalize(B, w))

FinalizeMulti ==
    /\ Building
    /\ \E w \in WitnessSets :
           Call("finalize_multi", [NoArgs EXCEPT !.wvs = w], finalize_multi(B, w))

FinalizeWithSatisfied ==
    /\ Building
    /\ \E s \in SatisfiedFor(1) :
           Call("finalize_with_satisfied", [NoArgs EXCEPT !.sats = <<s>>],
                finalize_with_satisfied(B, s))

FinalizeWithSatisfiedRefs ==
    /\ Building
    /\ \E s \in SatisfiedSets :
           Call("finalize_with_satisfied_refs", [NoArgs EXCEPT !.sats = s],
                finalize_with_satisfied_refs(B, s))

FinalizeBlinded ==
    /\ Building
    /\ \E t \in BlindedTxs(B), s \in SatisfiedFor(1) :
           Call("finalize_blinded", [NoArgs EXCEPT !.tx = Some(t), !.sats = <<s>>],
                finalize_blinded(B, t, s))

FinalizeBlindedRefs ==
    /\ Building
    /\ \E t \in BlindedTxs(B), s \in SatisfiedSets :
           Call("finalize_blinded_refs", [NoArgs EXCEPT !.tx = Some(t), !.sats = s],
                finalize_blinded_refs(B, t, s))

new_single(program, utxo) == NewBuilder(program, <<utxo>>)

InvalidUtxo == Result("err", "InvalidUtxo", None, None, 0, 0)

simple_spend_any_asset(program, utxo, destination, amount, fee, genesis_hash, wv) ==
    LET asset == IF utxo.asset.kind = "Explicit" THEN utxo.asset.data[1] ELSE 0
        b0 == [new_single(program, utxo) EXCEPT !.genesis_hash = genesis_hash]
        b1 == [b0 EXCEPT !.outputs = add_output_simple(@, destination, amount, asset)]
        b2 == [b1 EXCEPT !.outputs = add_fee(@, fee, asset)]
    IN  finalize(b2, wv)

simple_spend(program, utxo, destination, amount, fee, genesis_hash, wv) ==
    IF utxo.asset.kind # "Explicit" THEN InvalidUtxo
    ELSE LET asset == utxo.asset.data[1]
             b0 == [new_single(program, utxo) EXCEPT !.genesis_hash = genesis_hash]
             b1 == [b0 EXCEPT !.outputs = add_output_simple(@, destination, amount, asset)]
             b2 == [b1 EXCEPT !.outputs = add_fee(@, fee, asset)]
         IN  finalize(b2, wv)

(* The UTXOs handed to simple_spend: those of UtxoPool, one whose asset is *)
(* Null and one whose asset is a commitment                                *)
UtxoNullAsset == Utxo(5, 0, 9, AssetNull, None, None, None, None)
UtxoCommittedAsset ==
    Utxo(6, 1, 9, AssetConfidential(Commitment(10, 5)), None, None, None, None)
SimpleSpendUtxos == UtxoPool \cup {UtxoNullAsset, UtxoCommittedAsset}
SpendAmounts == {0, 3}
SpendFees == {0, 1}

(* simple_spend is a free function: it makes its own builder and consumes it *)
SimpleSpend ==
    /\ Idle /\ builder = None
    /\ \E program \in {BuilderProgram, OtherProgram}, utxo \in SimpleSpendUtxos,
          amount \in SpendAmounts, fee \in SpendFees, g \in GenesisHashes,
          w \in WitnessValuesFor(1) :
         ret' = Returned("simple_spend", None,
                         [NoArgs EXCEPT !.utxo = Some(utxo), !.wvs = <<w>>,
                                        !.spend = Some([program |-> program,
                                                        destination |-> <<82>>,
                                                        amount |-> amount, fee |-> fee,
                                                        genesis_hash |-> g])],
                         simple_spend(program, utxo, <<82>>, amount, fee, g, w))
    /\ UNCHANGED <<builder, given, pipeline, client>>

(* The caller takes the returned value; the next call can start *)
Return ==
    /\ ret # None
    /\ ret' = None
    /\ UNCHANGED <<builder, given, pipeline, client>>

Next ==
    \/ New
    \/ NumInputs \/ UtxoIsConfidential \/ GetBlindingParams \/ NeedsBlinding
    \/ SetGenesisHash \/ SetLockTime \/ SetSequence
    \/ AddOutput \/ AddOutputSimple \/ AddFee \/ AddConfidentialOutput
    \/ BuildUnsigned \/ AddFeeHoldingUnsigned
    \/ SighashAll \/ SighashAllForInput \/ SighashAllForBlinded \/ SighashAllForBlindedInput
    \/ Finalize \/ FinalizeMulti \/ FinalizeWithSatisfied \/ FinalizeWithSatisfiedRefs
    \/ FinalizeBlinded \/ FinalizeBlindedRefs
    \/ SimpleSpend
    \/ Return

Spec == Init /\ [][Next]_vars

(* SpecUtxo: builders over the whole UTXO field space, inspected and       *)
(* digested but not extended or finalized                                  *)
NewOverUtxoSpace ==
    /\ Idle /\ builder = None
    /\ \E utxos \in UtxoSpaceLists :
         /\ NewAccepts(utxos)
         /\ builder' = Some(NewBuilder(BuilderProgram, utxos))
         /\ given' = utxos
         /\ ret' = None
    /\ UNCHANGED <<pipeline, client>>

NextUtxo ==
    \/ NewOverUtxoSpace
    \/ NumInputs \/ UtxoIsConfidential \/ GetBlindingParams
    \/ SetGenesisHash
    \/ BuildUnsigned
    \/ SighashAll \/ SighashAllForInput \/ SighashAllForBlinded \/ SighashAllForBlindedInput
    \/ Return

SpecUtxo == Init /\ [][NextUtxo]_vars

----------------------------------------------------------------------------
(* program.rs: the pipeline Source -> Program -> InstantiatedProgram ->    *)
(* SatisfiedProgram -> encoded bytes.  A source is a number: 0 does not    *)
(* parse, any other does.  Arguments are a number: 0 does not fit the      *)
(* template's parameters, any other does.  The compiler and the taproot    *)
(* builder are external: the commitment root is an injective function of   *)
(* (source, arguments), and the taproot builder's outcome is an input.     *)

Sources == {0, 1, 2}
ArgumentSets == {0, 1, 2}
TaprootOutcomes == {"ok", "err"}
AddressParams == {"ELEMENTS", "LIQUID"}

ProgramError(kind) == Result("err", kind, None, None, 0, 0)

(* TemplateProgram::new *)
TemplateProgramNew(source) ==
    IF source = 0 THEN None ELSE Some([source |-> source])

from_source(source) ==
    LET template == TemplateProgramNew(source)
    IN  IF template = None THEN ProgramError("ParseError")
        ELSE OkValue([source |-> source, template |-> Unwrap(template)])

(* TemplateProgram::instantiate: the compiled program, known by its CMR *)
TemplateInstantiate(template, arguments) ==
    IF arguments = 0 THEN None
    ELSE Some([cmr |-> Bytes(CmrLen, 2 * (template.source - 1) + arguments)])

(* create_taproot_info with the outcome of TaprootBuilder as an input *)
create_taproot_info_result(cmr, outcome) ==
    IF outcome = "ok" THEN Some(create_taproot_info(cmr)) ELSE None

instantiate_seeded(program, arguments, outcome) ==
    LET compiled == TemplateInstantiate(program.template, arguments)
        seed == IF pipeline.instantiated = None THEN 0 ELSE 4
    IN  IF compiled = None THEN ProgramError("InstantiationError")
        ELSE LET cmr == [i \in 1..CmrLen |-> Unwrap(compiled).cmr[i] + seed]
                 taproot_info == create_taproot_info_result(cmr, outcome)
             IN  IF taproot_info = None THEN ProgramError("TaprootError")
                 ELSE OkValue([cmr |-> cmr, taproot_info |-> Unwrap(taproot_info)])

instantiate_without_taproot(program, arguments, outcome) ==
    LET compiled == TemplateInstantiate(program.template, arguments)
    IN  IF compiled = None THEN ProgramError("InstantiationError")
        ELSE LET taproot_info == create_taproot_info_result(Unwrap(compiled).cmr, outcome)
             IN  OkValue([cmr |-> Unwrap(compiled).cmr,
                          taproot_info |-> IF taproot_info = None
                                           THEN [internal_key |-> InternalKey,
                                                 merkle_root |-> <<>>, leaves |-> {}]
                                           ELSE Unwrap(taproot_info)])

instantiate(program, arguments, outcome) ==
    LET compiled == TemplateInstantiate(program.template, arguments)
    IN  IF compiled = None THEN ProgramError("InstantiationError")
        ELSE LET taproot_info == create_taproot_info_result(Unwrap(compiled).cmr, outcome)
             IN  IF taproot_info = None THEN ProgramError("TaprootError")
                 ELSE OkValue([cmr |-> Unwrap(compiled).cmr,
                               taproot_info |-> Unwrap(taproot_info)])

cmr(p) == p.cmr

(* Address::p2tr without blinder *)
address(p, params) ==
    [params |-> params, internal_key |-> p.taproot_info.internal_key,
     merkle_root |-> p.taproot_info.merkle_root, blinding_pubkey |-> None]

(* InstantiatedProgram::satisfy as a Result *)
satisfy_result(p, wv) ==
    LET satisfied == satisfy(p, wv)
    IN  IF satisfied = None THEN ProgramError("SatisfactionError")
        ELSE OkValue(Unwrap(satisfied))

PipelineArgs == [source |-> 0, arguments |-> 0, outcome |-> "ok", wv |-> 0, params |-> ""]

PipelineCall(op, args, res) == Some([op |-> op, args |-> args, res |-> res])

FromSource ==
    /\ \E source \in Sources :
         LET res == from_source(source)
         IN  pipeline' =
               [pipeline EXCEPT
                  !.program = IF res.status = "ok" THEN res.value ELSE @,
                  !.last = PipelineCall("from_source", [PipelineArgs EXCEPT !.source = source],
                                        res)]
    /\ UNCHANGED <<builder, given, ret, client>>

ProgramInstantiate ==
    /\ pipeline.program # None
    /\ \E arguments \in ArgumentSets, outcome \in TaprootOutcomes :
         LET program == Unwrap(pipeline.program)
             res == instantiate(program, arguments, outcome)
         IN  pipeline' =
               [pipeline EXCEPT
                  !.instantiated = IF res.status = "ok" THEN res.value ELSE @,
                  !.instantiated_from =
                      IF res.status = "ok" THEN Some(<<program.source, arguments>>) ELSE @,
                  !.last = PipelineCall("instantiate",
                                        [PipelineArgs EXCEPT !.source = program.source,
                                                             !.arguments = arguments,
                                                             !.outcome = outcome], res)]
    /\ UNCHANGED <<builder, given, ret, client>>

ProgramCmr ==
    /\ pipeline.instantiated # None
    /\ pipeline' = [pipeline EXCEPT
                      !.last = PipelineCall("cmr", PipelineArgs,
                                            OkValue(cmr(Unwrap(pipeline.instantiated))))]
    /\ UNCHANGED <<builder, given, ret, client>>

ProgramAddress ==
    /\ pipeline.instantiated # None
    /\ \E params \in AddressParams :
         pipeline' = [pipeline EXCEPT
                        !.last = PipelineCall("address", [PipelineArgs EXCEPT !.params = params],
                                   OkValue(address(Unwrap(pipeline.instantiated), params)))]
    /\ UNCHANGED <<builder, given, ret, client>>

ProgramScriptVersion ==
    /\ pipeline.instantiated # None
    /\ pipeline' = [pipeline EXCEPT
                      !.last = PipelineCall("script_version", PipelineArgs,
                                 OkValue(script_version(Unwrap(pipeline.instantiated))))]
    /\ UNCHANGED <<builder, given, ret, client>>

ProgramSatisfy ==
    /\ pipeline.instantiated # None
    /\ \E wv \in 0..2 :
         LET p == Unwrap(pipeline.instantiated)
             res == satisfy_result(p, wv)
         IN  pipeline' =
               [pipeline EXCEPT
                  !.satisfied = IF res.status = "ok" THEN res.value ELSE @,
                  !.satisfied_from = IF res.status = "ok" THEN Some(<<p, wv>>) ELSE @,
                  !.last = PipelineCall("satisfy", [PipelineArgs EXCEPT !.wv = wv], res)]
    /\ UNCHANGED <<builder, given, ret, client>>

SatisfiedEncode ==
    /\ pipeline.satisfied # None
    /\ LET res == OkValue(encode(Unwrap(pipeline.satisfied)))
       IN  pipeline' = [pipeline EXCEPT
                          !.encoded = res.value,
                          !.encoded_from = pipeline.satisfied,
                          !.last = PipelineCall("encode", PipelineArgs, res)]
    /\ UNCHANGED <<builder, given, ret, client>>

NextProgram ==
    \/ FromSource
    \/ ProgramInstantiate
    \/ ProgramCmr \/ ProgramAddress \/ ProgramScriptVersion
    \/ ProgramSatisfy
    \/ SatisfiedEncode

SpecProgram == Init /\ [][NextProgram]_vars

----------------------------------------------------------------------------
(* rpc_client.rs, config.rs: the genesis hash of an RpcClient.  A hash is  *)
(* four bytes here, as in GenesisHashes; a hash string is the sequence of  *)
(* its characters' hex-digit values, 16 standing for a character that is   *)
(* no hex digit.                                                           *)

(* BlockHash::from_str: twice as many hex digits as bytes, last byte first *)
BlockHashFromStr(str) ==
    IF Len(str) = 8 /\ \A i \in 1..Len(str) : str[i] \in 0..15
    THEN Some([i \in 1..4 |-> 16 * str[2 * (4 - i) + 1] + str[2 * (4 - i) + 2]])
    ELSE None

(* The hash strings of configs and node replies: two that parse, one that  *)
(* is too short ("abc123") and one with a character that is no hex digit   *)
HashStrA == <<0, 9, 0, 9, 0, 9, 0, 9>>
HashStrB == <<0, 15, 9, 1, 8, 8, 15, 1>>
HashStrShort == <<10, 11, 12, 1, 2, 3>>
HashStrNoHex == <<0, 15, 9, 1, 16, 8, 15, 1>>

(* chain.genesis_hash of a NodeConfig *)
ConfigGenesisHashes ==
    {None, Some(HashStrA), Some(HashStrB), Some(HashStrShort), Some(HashStrNoHex)}

(* What the node answers to getblockhash 0: None is a failed call *)
NodeReplies == {None, Some(HashStrA), Some(HashStrB), Some(HashStrShort), Some(HashStrNoHex)}

(* NodeConfig::genesis_hash: None is MissingGenesisHash or InvalidGenesisHash *)
config_genesis_hash(config) ==
    IF config.genesis_hash = None THEN None
    ELSE BlockHashFromStr(Unwrap(config.genesis_hash))

(* RpcClient::new *)
RpcClientNewWith(config) ==
    [config |-> config, genesis_hash |-> None,
     calls |-> 0, config_reads |-> 0, rpc_calls |-> 0, node_fetches |-> 0, last |-> None]

ClientReturn(c, res) == [c EXCEPT !.calls = @ + 1, !.last = Some(res)]

genesis_hash_uncached(c, reply) ==
    IF c.genesis_hash # None THEN ClientReturn(c, OkValue(Unwrap(c.genesis_hash)))
    ELSE LET from_config == config_genesis_hash(c.config)
             c1 == [c EXCEPT !.config_reads = @ + 1]
         IN  IF from_config # None
             THEN ClientReturn([c1 EXCEPT !.genesis_hash = from_config],
                               OkValue(Unwrap(from_config)))
             ELSE LET c2 == [c1 EXCEPT !.rpc_calls = @ + 1]
                  IN  IF reply = None THEN ClientReturn(c2, ProgramError("RpcError"))
                      ELSE IF BlockHashFromStr(Unwrap(reply)) = None
                      THEN ClientReturn(c2, ProgramError("IoError"))
                      ELSE ClientReturn([c2 EXCEPT !.node_fetches = @ + 1],
                                        OkValue(Unwrap(BlockHashFromStr(Unwrap(reply)))))

(* RpcClient::genesis_hash; reply is the node's answer if the node is asked *)
genesis_hash(c, reply) ==
    IF c.genesis_hash # None THEN ClientReturn(c, OkValue(Unwrap(c.genesis_hash)))
    ELSE LET from_config == config_genesis_hash(c.config)
             c1 == [c EXCEPT !.config_reads = @ + 1]
         IN  IF from_config # None
             THEN ClientReturn([c1 EXCEPT !.genesis_hash = from_config],
                               OkValue(Unwrap(from_config)))
             ELSE LET c2 == [c1 EXCEPT !.rpc_calls = @ + 1]
                      hash == IF reply = None THEN None ELSE BlockHashFromStr(Unwrap(reply))
                  IN  IF reply = None THEN ClientReturn(c2, ProgramError("RpcError"))
                      ELSE IF hash = None THEN ClientReturn(c2, ProgramError("IoError"))
                      ELSE ClientReturn([c2 EXCEPT !.genesis_hash = hash,
                                                   !.node_fetches = @ + 1],
                                        OkValue(Unwrap(hash)))

RpcClientNew ==
    /\ client = None
    /\ \E g \in ConfigGenesisHashes : client' = Some(RpcClientNewWith([genesis_hash |-> g]))
    /\ UNCHANGED <<builder, given, ret, pipeline>>

ClientGenesisHash ==
    /\ client # None
    /\ Unwrap(client).calls < MaxCalls
    /\ \E reply \in NodeReplies : client' = Some(genesis_hash(Unwrap(client), reply))
    /\ UNCHANGED <<builder, given, ret, pipeline>>

NextClient == RpcClientNew \/ ClientGenesisHash

SpecClient == Init /\ [][NextClient]_vars

----------------------------------------------------------------------------
(* Properties *)

R == Unwrap(ret)
Pre == Unwrap(R.pre)
Returns(ops) == ret # None /\ R.op \in ops
ReturnsOk(ops) == Returns(ops) /\ R.res.status = "ok"
ReturnsBuildErrorOnly ==
    /\ R.res.status = "err" /\ R.res.err = "BuildError"
    /\ R.res.tx = None /\ R.res.digest = None

SighashOps ==
    {"sighash_all", "sighash_all_for_input", "sighash_all_for_blinded",
     "sighash_all_for_blinded_input"}

(* The per-input value/asset list handed to the digest primitive *)
Handed == Unwrap(R.res.digest).utxos

BlinderNonZero(u) ==
    u.amount_blinder # None /\ Unwrap(u.amount_blinder) # Bytes(BlinderLen, 0)

(* C1: in both sighash operations every input whose UTXO has a present,    *)
(* not all-zero amount blinder and both commitments recorded is handed to  *)
(* the digest primitive with exactly the recorded commitments, never with  *)
(* the explicit amount or asset.                                           *)
C1_CommitmentsHanded ==
    ReturnsOk(SighashOps) =>
        \A k \in 1..Len(Pre.utxos) :
            LET u == Pre.utxos[k]
            IN  (BlinderNonZero(u) /\ u.amount_commitment # None /\ u.asset_commitment # None)
                => /\ Handed[k].value = ValueConfidential(Unwrap(u.amount_commitment))
                   /\ Handed[k].asset = AssetConfidential(Unwrap(u.asset_commitment))

(* C2: in both sighash operations every input whose UTXO is not            *)
(* confidential (blinder absent or all-zero), or has no commitment         *)
(* recorded, is handed to the digest primitive with its explicit amount    *)
(* and its asset field, whatever its commitment fields hold.               *)
C2_ExplicitHanded ==
    ReturnsOk(SighashOps) =>
        \A k \in 1..Len(Pre.utxos) :
            LET u == Pre.utxos[k]
            IN  (~BlinderNonZero(u) \/ (u.amount_commitment = None /\ u.asset_commitment = None))
                => /\ Handed[k].value = [kind |-> "Explicit", data |-> <<u.amount>>]
                   /\ Handed[k].asset = u.asset

C2_Witness ==
    /\ ReturnsOk({"sighash_all_for_input"})
    /\ Len(Pre.utxos) = 2
    /\ R.args.index = 0
    /\ Pre.utxos[2].amount_blinder = Some(Bytes(BlinderLen, 0))
    /\ Pre.utxos[2].amount_commitment # None
    /\ Pre.utxos[2].asset_commitment # None

(* C3: finalize_multi handed a number of witness-value sets other than the *)
(* number of UTXOs returns BuildError and no transaction before the prover *)
(* is called once; finalize_with_satisfied_refs and finalize_blinded_refs  *)
(* reject a differing number of satisfied programs the same way.           *)
C3_CountMismatchRejected ==
    /\ (Returns({"finalize_multi"}) /\ Len(R.args.wvs) # Len(Pre.utxos))
            => ReturnsBuildErrorOnly /\ R.res.satisfy_calls = 0
    /\ (Returns({"finalize_with_satisfied_refs", "finalize_blinded_refs"})
            /\ Len(R.args.sats) # Len(Pre.utxos))
            => ReturnsBuildErrorOnly

C3_Witness ==
    /\ Returns({"finalize_multi"})
    /\ Len(R.args.wvs) > Len(Pre.utxos)
    /\ \E k \in 1..Len(R.args.wvs) : R.args.wvs[k] = 0
    /\ R.res.err = "BuildError"

FinalizeBy == {"finalize", "finalize_multi", "finalize_with_satisfied",
               "finalize_with_satisfied_refs"}
FinalizeBlindedBy == {"finalize_blinded", "finalize_blinded_refs"}

(* C4: every finalize operation returns either an error and no transaction *)
(* or a transaction whose every input carries a 4-element witness stack.   *)
C4_NoPartialTransaction ==
    Returns(FinalizeBy \cup FinalizeBlindedBy) =>
        \/ R.res.status = "err" /\ R.res.tx = None
        \/ /\ R.res.status = "ok"
           /\ \A i \in 1..Len(Unwrap(R.res.tx).input) :
                  Len(Unwrap(R.res.tx).input[i].witness.script_witness) = 4

C6_IsConfidential ==
    Returns({"is_confidential"}) =>
        LET u == Unwrap(R.args.utxo)
        IN  Unwrap(R.res.value) =
                (u.amount_blinder # None /\ Unwrap(u.amount_blinder) # Bytes(BlinderLen, 0))

C6_Witness ==
    /\ Returns({"is_confidential"})
    /\ Unwrap(R.res.value) = FALSE
    /\ Unwrap(R.args.utxo).amount_blinder = Some(Bytes(BlinderLen, 0))
    /\ Unwrap(R.args.utxo).asset_blinder = Some(Bytes(BlinderLen, 2))
    /\ Unwrap(R.args.utxo).amount_commitment # None
    /\ Unwrap(R.args.utxo).asset_commitment # None

(* C7: new panics on an empty UTXO list and builds nothing; in every       *)
(* builder state the input list is the non-empty list given to new, in the *)
(* same order, and num_inputs() returns its length.                        *)
C7_InputsFixed ==
    /\ Returns({"new"}) => R.res.status = "panic" /\ builder = None
    /\ builder # None => B.utxos = given /\ Len(B.utxos) >= 1
    /\ Returns({"num_inputs"}) =>
           Unwrap(R.res.value) >= 1 /\ Unwrap(R.res.value) = Len(given)

C7_Witness ==
    /\ Returns({"num_inputs"})
    /\ Unwrap(R.res.value) = 2
    /\ Len(Pre.outputs) = 2
    /\ Pre.lock_time = 7
    /\ given[1].txid > given[2].txid

(* The witness and program bytes of the k-th input of a finalize call *)
WitnessBytesOf(k) ==
    IF R.op \in {"finalize", "finalize_multi"} THEN <<R.args.wvs[k]>>
    ELSE <<R.args.sats[k].inner.witness>>

(* C8: a transaction returned by finalize, finalize_multi or               *)
(* finalize_with_satisfied(_refs) has version 2, the builder's lock-time,  *)
(* one input per UTXO in order (its outpoint, empty sigScript, the shared  *)
(* sequence, the stack [witness, program, 32-byte CMR, control block]) and *)
(* the builder's outputs.                                                  *)
C8_FinalizedShape ==
    ReturnsOk(FinalizeBy) =>
        LET tx == Unwrap(R.res.tx)
        IN  /\ tx.version = 2
            /\ tx.lock_time = Pre.lock_time
            /\ tx.output = Pre.outputs
            /\ Len(tx.input) = Len(Pre.utxos)
            /\ \A k \in 1..Len(tx.input) :
                 LET in == tx.input[k]
                     stack == in.witness.script_witness
                 IN  /\ in.previous_output = <<Pre.utxos[k].txid, Pre.utxos[k].vout>>
                     /\ in.script_sig = <<>>
                     /\ in.sequence = Pre.sequence
                     /\ Len(stack) = 4
                     /\ stack[1] = WitnessBytesOf(k)
                     /\ stack[2] = <<0>> \o Pre.program.cmr
                     /\ stack[3] = Pre.program.cmr
                     /\ Len(stack[3]) = 32
                     /\ stack[4] = <<LeafVersion>> \o InternalKey

C8_Witness ==
    /\ ReturnsOk({"finalize_multi"})
    /\ Len(Unwrap(R.res.tx).input) = 2
    /\ Len(Unwrap(R.res.tx).output) = 2
    /\ Unwrap(R.res.tx).lock_time = 7
    /\ Unwrap(R.res.tx).input[1].sequence # SequenceMax

WithoutWitness(in) == [in EXCEPT !.witness = TxInWitnessEmpty]

C10_BlindedSighashAgrees ==
    Returns({"sighash_all_for_blinded_input"}) =>
        LET plain == sighash_all_for_input(Pre, R.args.index)
        IN  /\ R.res.status = plain.status
            /\ R.res.status = "ok" =>
                 LET d == Unwrap(R.res.digest)
                     e == Unwrap(plain.digest)
                 IN  /\ d.utxos = e.utxos
                     /\ d.cmr = e.cmr
                     /\ d.control_block = e.control_block
                     /\ d.genesis_hash = e.genesis_hash
                     /\ d.index = e.index
                     /\ Unwrap(R.args.tx) = build_unsigned_tx(Pre) => d = e

C10_Witness ==
    /\ ReturnsOk({"sighash_all_for_blinded_input"})
    /\ Unwrap(R.args.tx) = build_unsigned_tx(Pre)
    /\ R.args.index = 1
    /\ Pre.utxos[2] = UtxoConfidential
    /\ Pre.genesis_hash # Bytes(4, 0)
    /\ Len(Pre.outputs) = 2

(* The result of making the sighash call that has just returned once more, *)
(* with the same arguments, on the builder as it is now                    *)
SighashAgain ==
    CASE R.op = "sighash_all" -> sighash_all(B)
      [] R.op = "sighash_all_for_input" -> sighash_all_for_input(B, R.args.index)
      [] R.op = "sighash_all_for_blinded" -> sighash_all_for_blinded(B, Unwrap(R.args.tx))
      [] R.op = "sighash_all_for_blinded_input" ->
             sighash_all_for_blinded_input(B, Unwrap(R.args.tx), R.args.index)

C12_IndexOutOfBounds ==
    /\ (Returns({"sighash_all_for_input", "sighash_all_for_blinded_input"})
            /\ R.args.index >= Len(Pre.utxos))
         => ReturnsBuildErrorOnly /\ R.res.digest_calls = 0
    /\ Returns({"sighash_all"}) => R.res = sighash_all_for_input(Pre, 0)
    /\ Returns({"sighash_all_for_blinded"}) =>
           R.res = sighash_all_for_blinded_input(Pre, Unwrap(R.args.tx), 0)

C12_Witness ==
    /\ Returns({"sighash_all_for_input"})
    /\ Len(Pre.utxos) = 2
    /\ R.args.index = 2
    /\ R.res.err = "BuildError"

(* The taproot infos in which the call that has just returned looks up the *)
(* control block of the builder's (script, leaf version)                   *)
LookedUpIn ==
    IF R.op \in SighashOps THEN {Pre.program.taproot_info}
    ELSE IF R.op \in {"finalize", "finalize_multi"}
    THEN IF Len(R.args.wvs) = Len(Pre.utxos)
            /\ \A k \in 1..Len(R.args.wvs) : Satisfies(Pre.program, R.args.wvs[k])
         THEN {Pre.program.taproot_info} ELSE {}
    ELSE IF Len(R.args.sats) = Len(Pre.utxos)
         THEN {R.args.sats[k].taproot_info : k \in 1..Len(R.args.sats)} ELSE {}

(* C13: when a taproot info consulted by a sighash or finalize call does   *)
(* not hold the leaf (builder's CMR script, leaf version), the call        *)
(* returns BuildError, no digest and no transaction.                       *)
C13_MissingControlBlock ==
    (Returns(SighashOps \cup FinalizeBy \cup FinalizeBlindedBy)
        /\ (R.op \in {"sighash_all_for_input", "sighash_all_for_blinded_input"}
                => R.args.index < Len(Pre.utxos))
        /\ \E info \in LookedUpIn : <<Pre.program.cmr, LeafVersion>> \notin info.leaves)
    => ReturnsBuildErrorOnly

C13_Witness ==
    /\ Returns({"finalize_blinded_refs"})
    /\ Len(R.args.sats) = 2
    /\ Len(Pre.utxos) = 2
    /\ R.args.sats[2].taproot_info # Pre.program.taproot_info
    /\ R.args.sats[1].taproot_info = Pre.program.taproot_info
    /\ R.res.err = "BuildError"

(* The bytes a hex string stands for *)
FromHex(h) == [i \in 1..(Len(h) \div 2) |-> 16 * h[2 * i - 1] + h[2 * i]]

BlinderOrZero(o) == IF o = None THEN Bytes(BlinderLen, 0) ELSE Unwrap(o)

(* C14: get_blinding_params() returns four sequences as long as the input  *)
(* list whose i-th entries are the i-th UTXO's amount blinder in hex (64    *)
(* zeros when absent), amount, asset id in hex and asset blinder in hex,   *)
(* and leaves the builder as it was.                                       *)
C14_BlindingParamsAligned ==
    Returns({"get_blinding_params"}) =>
        LET p == Unwrap(R.res.value)
            n == Len(Pre.utxos)
        IN  /\ R.res.status = "ok"
            /\ builder = R.pre
            /\ Len(p.input_amount_blinders) = n
            /\ Len(p.input_amounts) = n
            /\ Len(p.input_assets) = n
            /\ Len(p.input_asset_blinders) = n
            /\ \A i \in 1..n :
                 LET u == Pre.utxos[i]
                 IN  /\ Len(p.input_amount_blinders[i]) = 64
                     /\ FromHex(p.input_amount_blinders[i]) = BlinderOrZero(u.amount_blinder)
                     /\ p.input_amounts[i] = u.amount
                     /\ Len(p.input_asset_blinders[i]) = 64
                     /\ FromHex(p.input_asset_blinders[i]) = BlinderOrZero(u.asset_blinder)
                     /\ u.asset.kind = "Explicit" =>
                            FromHex(p.input_assets[i]) = Bytes(32, u.asset.data[1])

C14_Witness ==
    /\ Returns({"get_blinding_params"})
    /\ Len(Pre.utxos) = 2
    /\ Pre.utxos[1].amount_blinder = Some(LastByte(BlinderLen, 1))
    /\ Pre.utxos[1].asset_blinder = Some(Bytes(BlinderLen, 2))
    /\ Pre.utxos[1].asset.kind = "Explicit"
    /\ Pre.utxos[2].amount_blinder = None
    /\ Unwrap(R.res.value).input_amounts = <<8, 5>>

(* The blinding parameters of a builder over the one UTXO u *)
ParamsOfAlone(u) == get_blinding_params(NewBuilder(BuilderProgram, <<u>>))

(* C15: get_blinding_params() succeeds whatever the assets are; an input   *)
(* whose asset is not Explicit gets 64 zeros as its asset id and still its *)
(* own blinders and amount, and every other input gets the entries it gets *)
(* in a builder that has that input alone.                                 *)
C15_NonExplicitAssetPlaceholder ==
    Returns({"get_blinding_params"}) =>
        LET p == Unwrap(R.res.value)
        IN  /\ R.res.status = "ok"
            /\ \A i \in 1..Len(Pre.utxos) :
                 LET u == Pre.utxos[i]
                 IN  /\ u.asset.kind # "Explicit" =>
                          /\ p.input_assets[i] = [d \in 1..64 |-> 0]
                          /\ FromHex(p.input_amount_blinders[i]) = BlinderOrZero(u.amount_blinder)
                          /\ p.input_amounts[i] = u.amount
                          /\ FromHex(p.input_asset_blinders[i]) = BlinderOrZero(u.asset_blinder)
                     /\ (\E j \in 1..Len(Pre.utxos) : Pre.utxos[j].asset.kind # "Explicit") =>
                          /\ p.input_amount_blinders[i] = ParamsOfAlone(u).input_amount_blinders[1]
                          /\ p.input_amounts[i] = ParamsOfAlone(u).input_amounts[1]
                          /\ p.input_assets[i] = ParamsOfAlone(u).input_assets[1]
                          /\ p.input_asset_blinders[i] = ParamsOfAlone(u).input_asset_blinders[1]

C15_Witness ==
    /\ Returns({"get_blinding_params"})
    /\ Len(Pre.utxos) = 2
    /\ Pre.utxos[1].asset.kind = "Null"
    /\ Pre.utxos[1].amount_blinder = Some(Bytes(BlinderLen, 1))
    /\ Pre.utxos[2].asset.kind = "Explicit"
    /\ Unwrap(R.res.value).input_assets[1] = [d \in 1..64 |-> 0]
    /\ Unwrap(R.res.value).input_assets[2] # [d \in 1..64 |-> 0]

(* A step in which the outputs of a live builder change *)
OutputsChange == builder # None /\ builder' # None /\ B'.outputs # B.outputs

LastOutput(b) == b.outputs[Len(b.outputs)]

(* C16: every step that changes the outputs appends exactly one output     *)
(* after the existing ones and leaves inputs, program, lock-time, sequence *)
(* and genesis hash alone; add_output_simple, add_fee and                  *)
(* add_confidential_output append the output built from their arguments,   *)
(* and none of the four returns an error.                                  *)
C16_AddAppendsOne ==
    [][/\ OutputsChange =>
            /\ Len(B'.outputs) = Len(B.outputs) + 1
            /\ SubSeq(B'.outputs, 1, Len(B.outputs)) = B.outputs
            /\ B'.utxos = B.utxos
            /\ B'.program = B.program
            /\ B'.lock_time = B.lock_time
            /\ B'.sequence = B.sequence
            /\ B'.genesis_hash = B.genesis_hash
       /\ (AddOutput \/ AddOutputSimple \/ AddFee \/ AddConfidentialOutput) =>
            OutputsChange /\ ret' = None
       /\ AddOutputSimple =>
            LastOutput(B') = [value |-> [kind |-> "Explicit", data |-> <<3>>],
                              script_pubkey |-> <<82>>,
                              asset |-> [kind |-> "Explicit", data |-> <<1>>],
                              nonce |-> [kind |-> "Null", data |-> <<>>],
                              witness |-> TxOutWitnessEmpty]
       /\ AddFee =>
            /\ LastOutput(B').script_pubkey = <<>>
            /\ LastOutput(B').value = [kind |-> "Explicit", data |-> <<1>>]
       /\ AddConfidentialOutput =>
            /\ LastOutput(B').nonce = NonceConfidential(Commitment(2, 6))
            /\ LastOutput(B').value = [kind |-> "Explicit", data |-> <<2>>]
      ]_vars

C16_Witness ==
    /\ Building
    /\ Len(B.outputs) = 2
    /\ B.outputs[1].nonce.kind = "Confidential"
    /\ B.outputs[2].script_pubkey = <<>>
    /\ B.lock_time = 7
    /\ B.genesis_hash # Bytes(4, 0)
    /\ Len(B.utxos) = 2

HasNonce(outputs) == \E k \in 1..Len(outputs) : outputs[k].nonce # NonceNull

(* C17: needs_blinding() returns true exactly when some output added so    *)
(* far has a non-null nonce; add_output_simple and add_fee leave that      *)
(* unchanged, and once some output has a nonce some output has one for as  *)
(* long as the builder lives.                                              *)
C17_NeedsBlinding ==
    /\ [](Returns({"needs_blinding"}) => Unwrap(R.res.value) = HasNonce(Pre.outputs))
    /\ [][(AddOutputSimple \/ AddFee) => HasNonce(B'.outputs) = HasNonce(B.outputs)]_vars
    /\ [][(builder # None /\ builder' # None /\ HasNonce(B.outputs))
              => HasNonce(B'.outputs)]_vars

C17_Witness ==
    /\ Returns({"needs_blinding"})
    /\ Unwrap(R.res.value) = TRUE
    /\ Len(Pre.outputs) = 2
    /\ Pre.outputs[1].nonce # NonceNull
    /\ Pre.outputs[2].nonce = NonceNull

(* C18: build_unsigned() returns version 2, the builder's lock-time, one   *)
(* input per UTXO in order (its outpoint, empty sigScript, empty witness,  *)
(* the shared sequence) and the outputs as they were at the call, also     *)
(* after outputs have been added since; the call leaves the builder as it  *)
(* was.                                                                    *)
C18_BuildUnsigned ==
    /\ [](Returns({"build_unsigned"}) =>
            LET tx == Unwrap(R.res.tx)
            IN  /\ R.res.status = "ok"
                /\ tx.version = 2
                /\ tx.lock_time = Pre.lock_time
                /\ tx.output = Pre.outputs
                /\ Len(tx.input) = Len(Pre.utxos)
                /\ \A k \in 1..Len(tx.input) :
                     /\ tx.input[k].previous_output = <<Pre.utxos[k].txid, Pre.utxos[k].vout>>
                     /\ tx.input[k].script_sig = <<>>
                     /\ tx.input[k].sequence = Pre.sequence
                     /\ tx.input[k].witness.script_witness = <<>>
                     /\ tx.input[k].witness.amount_rangeproof = None
                /\ builder # None
                /\ SubSeq(B.outputs, 1, Len(tx.output)) = tx.output
                /\ [B EXCEPT !.outputs = tx.output] = Pre)
    /\ [][(ret = None /\ ret' # None /\ Unwrap(ret').op = "build_unsigned")
              => builder' = builder /\ Unwrap(ret').pre = builder]_vars

C18_Witness ==
    /\ Returns({"build_unsigned"})
    /\ Len(Unwrap(R.res.tx).input) = 2
    /\ Len(Unwrap(R.res.tx).output) = 1
    /\ Len(B.outputs) = 2
    /\ Unwrap(R.res.tx).lock_time = 7

(* C19: finalize(w) returns what finalize_multi([w]) returns in the same   *)
(* builder state: BuildError and nothing else on a builder with two or     *)
(* more inputs, and on a builder with one input the transaction or the     *)
(* prover's error of finalize_multi([w]).                                  *)
C19_FinalizeIsFinalizeMulti ==
    Returns({"finalize"}) =>
        /\ R.res = finalize_multi(Pre, <<R.args.wvs[1]>>)
        /\ Len(Pre.utxos) >= 2 => ReturnsBuildErrorOnly /\ R.res.satisfy_calls = 0
        /\ Len(Pre.utxos) = 1 =>
             IF R.args.wvs[1] = 0 THEN R.res.err = "ContractError" /\ R.res.tx = None
             ELSE R.res.status = "ok" /\ Len(Unwrap(R.res.tx).input) = 1

C19_Witness ==
    /\ Returns({"finalize"})
    /\ Len(Pre.utxos) = 2
    /\ R.args.wvs = <<1>>
    /\ R.res.err = "BuildError"

(* C20: simple_spend on a UTXO whose asset is not Explicit returns         *)
(* InvalidUtxo and no transaction without calling the prover, whatever the *)
(* other arguments; with an explicit asset and a satisfying witness it     *)
(* returns a transaction with the UTXO as its one input and two outputs,   *)
(* destination then fee, both in the UTXO's asset.                         *)
C20_SimpleSpend ==
    Returns({"simple_spend"}) =>
        LET u == Unwrap(R.args.utxo)
            a == Unwrap(R.args.spend)
        IN  /\ u.asset.kind # "Explicit" =>
                 /\ R.res.status = "err" /\ R.res.err = "InvalidUtxo"
                 /\ R.res.tx = None /\ R.res.satisfy_calls = 0
            /\ (u.asset.kind = "Explicit" /\ R.args.wvs[1] # 0) =>
                 /\ R.res.status = "ok"
                 /\ LET tx == Unwrap(R.res.tx)
                    IN  /\ Len(tx.input) = 1
                        /\ tx.input[1].previous_output = <<u.txid, u.vout>>
                        /\ Len(tx.output) = 2
                        /\ tx.output[1].script_pubkey = a.destination
                        /\ tx.output[1].value = [kind |-> "Explicit", data |-> <<a.amount>>]
                        /\ tx.output[1].asset = u.asset
                        /\ tx.output[2].script_pubkey = <<>>
                        /\ tx.output[2].value = [kind |-> "Explicit", data |-> <<a.fee>>]
                        /\ tx.output[2].asset = u.asset

C20_Witness ==
    /\ Returns({"simple_spend"})
    /\ Unwrap(R.args.utxo).asset.kind = "Confidential"
    /\ R.args.wvs = <<1>>
    /\ Unwrap(R.args.spend).amount = 3
    /\ R.res.err = "InvalidUtxo"

(* The last call of the program pipeline, before and after a step *)
PL == Unwrap(pipeline.last)
PLNext == Unwrap(pipeline'.last)
PipelineReturns(op) == pipeline.last # None /\ PL.op = op

C22_InstantiateAllOrNothing ==
    /\ [](PipelineReturns("instantiate") =>
            /\ PL.args.arguments = 0 =>
                 PL.res.status = "err" /\ PL.res.err = "InstantiationError" /\ PL.res.value = None
            /\ (PL.args.arguments # 0 /\ PL.args.outcome = "err") =>
                 PL.res.status = "err" /\ PL.res.err = "TaprootError" /\ PL.res.value = None
            /\ PL.res.status = "ok" <=> (PL.args.arguments # 0 /\ PL.args.outcome = "ok")
            /\ PL.res.status = "ok" =>
                 /\ PL.res.value # None
                 /\ Unwrap(PL.res.value).taproot_info.leaves # {}
                 /\ Unwrap(PL.res.value).taproot_info.merkle_root # <<>>)
    /\ [](pipeline.instantiated # None =>
            Unwrap(pipeline.instantiated).taproot_info.leaves # {})
    /\ [][(ProgramInstantiate /\ PLNext.res.status = "err")
              => pipeline'.instantiated = pipeline.instantiated]_vars

C22_Witness ==
    /\ PipelineReturns("instantiate")
    /\ PL.res.err = "TaprootError"
    /\ PL.args.arguments = 2
    /\ pipeline.instantiated = None
    /\ pipeline.program # None

(* The values a caller holds, without the record of the last call *)
Held(pl) == [pl EXCEPT !.last = None]

(* C23: a Program exists only from a source that parsed, an                *)
(* InstantiatedProgram only from a Program and arguments that instantiated *)
(* it, a SatisfiedProgram only from an InstantiatedProgram and a witness   *)
(* that satisfied it, encoded bytes only from a SatisfiedProgram; a failed *)
(* call returns no value and changes nothing held; each held value changes *)
(* only by a successful call of the transition that produces its stage.    *)
C23_PipelineForward ==
    /\ [](/\ pipeline.program # None => Unwrap(pipeline.program).source # 0
          /\ pipeline.instantiated # None =>
               /\ pipeline.instantiated_from # None
               /\ Unwrap(pipeline.instantiated_from)[1] # 0
               /\ Unwrap(pipeline.instantiated_from)[2] # 0
               /\ Unwrap(pipeline.instantiated).cmr =
                    Bytes(32, 2 * (Unwrap(pipeline.instantiated_from)[1] - 1)
                                + Unwrap(pipeline.instantiated_from)[2])
          /\ pipeline.satisfied # None =>
               /\ pipeline.satisfied_from # None
               /\ Unwrap(pipeline.satisfied_from)[2] # 0
               /\ Unwrap(pipeline.satisfied).inner.witness = Unwrap(pipeline.satisfied_from)[2]
               /\ Unwrap(pipeline.satisfied).inner.cmr = Unwrap(pipeline.satisfied_from)[1].cmr
               /\ Unwrap(pipeline.satisfied).taproot_info =
                    Unwrap(pipeline.satisfied_from)[1].taproot_info
          /\ pipeline.encoded # None =>
               /\ pipeline.encoded_from # None
               /\ Unwrap(pipeline.encoded)[1] = <<0>> \o Unwrap(pipeline.encoded_from).inner.cmr
               /\ Unwrap(pipeline.encoded)[2] = <<Unwrap(pipeline.encoded_from).inner.witness>>
          /\ (pipeline.last # None /\ PL.res.status = "err") => PL.res.value = None)
    /\ [][(pipeline'.last # None /\ PLNext.res.status = "err")
              => Held(pipeline') = Held(pipeline)]_vars
    /\ [][/\ pipeline'.program # pipeline.program => PLNext.op = "from_source"
          /\ pipeline'.instantiated # pipeline.instantiated => PLNext.op = "instantiate"
          /\ pipeline'.satisfied # pipeline.satisfied => PLNext.op = "satisfy"
          /\ pipeline'.encoded # pipeline.encoded => PLNext.op = "encode"]_vars

C23_Witness ==
    /\ PipelineReturns("satisfy")
    /\ PL.res.err = "SatisfactionError"
    /\ pipeline.encoded # None
    /\ pipeline.satisfied # None
    /\ pipeline.encoded_from # pipeline.satisfied
    /\ Unwrap(pipeline.satisfied_from)[1] # Unwrap(pipeline.instantiated)
    /\ Unwrap(pipeline.program).source # Unwrap(pipeline.instantiated_from)[1]

CL == Unwrap(client)
CLNext == Unwrap(client')

(* C24: a client whose cache holds a hash keeps it for ever and answers    *)
(* every call with it, reading neither the config nor the node; the call   *)
(* that returned Ok(h) left h in the cache; a config hash that parses is   *)
(* returned and the node is never asked; a call that fails leaves the      *)
(* cache empty; no client fetches a hash from the node twice.              *)
C24_GenesisHashFetchOnce ==
    /\ [](client # None =>
            /\ (CL.last # None /\ Unwrap(CL.last).status = "ok") =>
                   CL.genesis_hash = Unwrap(CL.last).value
            /\ (CL.last # None /\ Unwrap(CL.last).status = "err") =>
                   CL.genesis_hash = None /\ Unwrap(CL.last).value = None
            /\ CL.config.genesis_hash \in {Some(HashStrA), Some(HashStrB)} =>
                   /\ CL.rpc_calls = 0
                   /\ CL.last # None =>
                        Unwrap(CL.last).value =
                            IF CL.config.genesis_hash = Some(HashStrA)
                            THEN Some(<<9, 9, 9, 9>>) ELSE Some(<<241, 136, 145, 15>>)
            /\ CL.node_fetches <= 1
            /\ CL.config_reads <= CL.calls)
    /\ [][(client # None /\ CL.genesis_hash # None) =>
            /\ CLNext.genesis_hash = CL.genesis_hash
            /\ CLNext.config = CL.config
            /\ CLNext.config_reads = CL.config_reads
            /\ CLNext.rpc_calls = CL.rpc_calls
            /\ CLNext.node_fetches = CL.node_fetches
            /\ CLNext.last = Some(OkValue(Unwrap(CL.genesis_hash)))]_vars

C24_Witness ==
    /\ client # None
    /\ CL.config.genesis_hash = Some(HashStrShort)
    /\ CL.calls = 4
    /\ CL.rpc_calls = 3
    /\ CL.node_fetches = 1
    /\ CL.genesis_hash = Some(<<241, 136, 145, 15>>)

(* C25: finalize_multi with one witness-value set per UTXO calls the       *)
(* prover once per input in input order; when every set satisfies the      *)
(* program the i-th input spends the i-th UTXO and carries the witness of  *)
(* the i-th set, and when one set fails the call returns the prover's      *)
(* error and no transaction, the prover having been called up to the       *)
(* first failing set.                                                      *)
C25_PerInputWitness ==
    (Returns({"finalize_multi"}) /\ Len(R.args.wvs) = Len(Pre.utxos)) =>
        LET wvs == R.args.wvs
            bad == {k \in 1..Len(wvs) : wvs[k] = 0}
        IN  IF bad # {}
            THEN /\ R.res.status = "err" /\ R.res.err = "ContractError"
                 /\ R.res.tx = None
                 /\ \A k \in bad : R.res.satisfy_calls <= k
                 /\ R.res.satisfy_calls \in bad
            ELSE /\ R.res.status = "ok"
                 /\ R.res.satisfy_calls = Len(Pre.utxos)
                 /\ \A i \in 1..Len(Pre.utxos) :
                      LET in == Unwrap(R.res.tx).input[i]
                      IN  /\ in.previous_output = <<Pre.utxos[i].txid, Pre.utxos[i].vout>>
                          /\ Len(in.witness.script_witness) = 4
                          /\ in.witness.script_witness[1] = <<wvs[i]>>

C25_Witness ==
    /\ Returns({"finalize_multi"})
    /\ Len(Pre.utxos) = 2
    /\ R.args.wvs = <<1, 0>>
    /\ R.res.err = "ContractError"
    /\ R.res.satisfy_calls = 2

(* C26: every InstantiatedProgram that instantiate returns has the script  *)
(* version (32-byte CMR, Simplicity leaf version), and its taproot info    *)
(* and that of every SatisfiedProgram obtained from it hold the control    *)
(* block of that pair; so a sighash call with an index in range succeeds,  *)
(* and so does finalize or finalize_multi with one satisfying witness per  *)
(* input.                                                                  *)
C26_ControlBlockExists ==
    /\ \A source \in Sources \ {0}, arguments \in ArgumentSets \ {0} :
         LET p == Unwrap(instantiate(Unwrap(from_source(source).value), arguments, "ok").value)
         IN  /\ script_version(p) = <<p.cmr, 190>>
             /\ Len(script_version(p)[1]) = 32
             /\ control_block(p.taproot_info, p.cmr, 190) # None
             /\ \A wv \in 1..2 :
                  control_block(Unwrap(satisfy(p, wv)).taproot_info, p.cmr, 190) # None
    /\ builder # None =>
         B.program = Unwrap(instantiate(Unwrap(from_source(1).value), 1, "ok").value)
    /\ (Returns({"sighash_all", "sighash_all_for_blinded"})
            \/ (Returns({"sighash_all_for_input", "sighash_all_for_blinded_input"})
                    /\ R.args.index < Len(Pre.utxos)))
         => R.res.status = "ok" /\ R.res.digest # None
    /\ (Returns({"finalize", "finalize_multi"})
            /\ Len(R.args.wvs) = Len(Pre.utxos)
            /\ \A k \in 1..Len(R.args.wvs) : R.args.wvs[k] # 0)
         => R.res.status = "ok" /\ R.res.tx # None

C26_Witness ==
    /\ ReturnsOk({"finalize"})
    /\ Len(Pre.outputs) = 1
    /\ Unwrap(R.res.tx).input[1].witness.script_witness[4] = <<190>> \o InternalKey
    /\ Pre.genesis_hash # Bytes(4, 0)

(* C27: a transaction returned by finalize, finalize_multi or              *)
(* finalize_with_satisfied(_refs) is, with the input witnesses taken off,  *)
(* the transaction build_unsigned returns in the same builder state, which *)
(* is the transaction every sighash_all_for_input of that state digests.   *)
C27_FinalizedIsUnsignedPlusWitness ==
    ReturnsOk(FinalizeBy) =>
        LET tx == Unwrap(R.res.tx)
            bare == [tx EXCEPT !.input = [k \in 1..Len(tx.input) |-> WithoutWitness(tx.input[k])]]
        IN  /\ bare = build_unsigned_tx(Pre)
            /\ \A k \in 1..Len(tx.input) : tx.input[k].witness # TxInWitnessEmpty
            /\ \A i \in 0..(Len(Pre.utxos) - 1) :
                 /\ sighash_all_for_input(Pre, i).status = "ok"
                 /\ Unwrap(sighash_all_for_input(Pre, i).digest).tx = bare

C27_Witness ==
    /\ ReturnsOk({"finalize_with_satisfied_refs"})
    /\ Len(Unwrap(R.res.tx).input) = 2
    /\ Unwrap(R.res.tx).input[2].sequence # SequenceMax
    /\ Unwrap(R.res.tx).lock_time = 7
    /\ Len(Unwrap(R.res.tx).output) = 2

SatisfiedTaking ==
    {"finalize_with_satisfied", "finalize_with_satisfied_refs",
     "finalize_blinded", "finalize_blinded_refs"}

(* C28: a finalize call handed a SatisfiedProgram whose CMR is not the     *)
(* builder program's CMR returns BuildError and no transaction; every      *)
(* witness stack in a returned transaction holds the builder's program.    *)
C28_ForeignProgramRejected ==
    Returns(SatisfiedTaking) =>
        /\ (\E k \in 1..Len(R.args.sats) : R.args.sats[k].inner.cmr # Pre.program.cmr)
              => ReturnsBuildErrorOnly
        /\ R.res.status = "ok" =>
              \A i \in 1..Len(Unwrap(R.res.tx).input) :
                  LET stack == Unwrap(R.res.tx).input[i].witness.script_witness
                  IN  stack # <<>> => stack[2] = <<0>> \o Pre.program.cmr

C28_Witness ==
    /\ Returns({"finalize_with_satisfied_refs"})
    /\ Len(R.args.sats) = 2
    /\ Len(Pre.utxos) = 2
    /\ R.args.sats[1].inner.cmr # Pre.program.cmr
    /\ R.args.sats[2].inner.cmr = Pre.program.cmr
    /\ R.res.err = "BuildError"

(* C29: sighash_all_for_blinded_input never hands the digest primitive an  *)
(* input index that is out of range for the blinded transaction it was     *)
(* given: with input_index >= the number of inputs of blinded_tx (also     *)
(* when blinded_tx has fewer inputs than the builder has UTXOs) the call   *)
(* returns BuildError.                                                     *)
C29_BlindedIndexInRange ==
    Returns({"sighash_all_for_blinded_input"}) =>
        /\ R.args.index >= Len(Unwrap(R.args.tx).input) => ReturnsBuildErrorOnly
        /\ R.res.status = "ok" =>
              Unwrap(R.res.digest).index < Len(Unwrap(R.res.digest).tx.input)

(* C30: in both sighash operations the value and the asset handed to the   *)
(* digest primitive for one input are of the same kind, both commitments   *)
(* or both not, whatever the UTXO's blinder and commitment fields hold.    *)
C30_ValueAssetSameKind ==
    ReturnsOk(SighashOps) =>
        \A k \in 1..Len(Pre.utxos) :
            (Handed[k].value.kind = "Confidential") <=> (Handed[k].asset.kind = "Confidential")

====
